---- MODULE Spec2Model ----
(***************************************************************************)
(* Tic-tac-toe decision engine of src/tic_tac_toe.py: the board queries,   *)
(* minimax with alpha-beta pruning, best_move, the opening book and        *)
(* ai_move, and the round loop that drives them.                           *)
(*                                                                         *)
(* A board is the list of three row lists of the source, indexed 0..2;     *)
(* a cell holds " ", "X" or "O".  Python's None is the empty tuple, and    *)
(* float('inf') is the integer Inf, larger than every score.  A function   *)
(* that writes to the board it is given returns the board next to its      *)
(* value, so that the trial placements and their retractions are part of   *)
(* what is computed.                                                       *)
(***************************************************************************)
EXTENDS Integers, Sequences, FiniteSets, TLC

VARIABLES
  BOOK,         \* the opening book, a module global
  load,         \* how the load of the book at import ended
  warnings,     \* number of diagnostics printed while loading the book
  pc,           \* control position
  single_mode,  \* game_loop's argument
  rounds,       \* rounds still to be played by game_loop
  players,      \* game_loop's list of the two names
  score,        \* game_loop's dict, one count per name
  board,        \* the board list (play_round's local, or the argument of a call)
  board0,       \* the board as it was when the call under study was made
  turn,         \* play_round's turn counter
  ret,          \* what the last call returned
  prev,         \* what the call before it returned (same argument)
  stack         \* the calls of best_move and minimax in progress, innermost last

vars ==
  <<BOOK, load, warnings, pc, single_mode, rounds, players, score, board, board0, turn,
    ret, prev, stack>>

----------------------------------------------------------------------------
(* Bounds of the model *)

\* boards handed to minimax, best_move and ai_move on their own have at most
\* this many Empty cells; best_move is also given the empty board
MaxEmpty == 5
\* calls made in a row on the same board
MaxCalls == 2
\* rounds asked of game_loop
MaxRounds == 1
\* Empty cells of the boards whose search is followed step by step
MaxSearchEmpty == 4
\* Empty cells of the boards handed to minimax together with a window
MaxWindowEmpty == 3

----------------------------------------------------------------------------
(* Values *)

Inf == 1000
None == <<>>
Idx == 0..2
Cell == {" ", "X", "O"}

max(a, b) == IF a >= b THEN a ELSE b
min(a, b) == IF a <= b THEN a ELSE b

EmptyBoard == [i \in Idx |-> [j \in Idx |-> " "]]

\* board[i][j] = symbol
place(b, i, j, symbol) == [b EXCEPT ![i][j] = symbol]

----------------------------------------------------------------------------
(* Board queries *)

win_cond ==
  << <<0,0, 0,1, 0,2>>, <<1,0, 1,1, 1,2>>, <<2,0, 2,1, 2,2>>,
     <<0,0, 1,0, 2,0>>, <<0,1, 1,1, 2,1>>, <<0,2, 1,2, 2,2>>,
     <<0,0, 1,1, 2,2>>, <<0,2, 1,1, 2,0>> >>

\* three equal cells taken for a line of the player, whatever they hold
check_win_equal_cells(b, player) ==
  \E n \in 1..Len(win_cond) :
     LET w == win_cond[n] IN
       /\ b[w[1]][w[2]] = b[w[3]][w[4]]
       /\ b[w[3]][w[4]] = b[w[5]][w[6]]

\* a check that never sees a line
check_win_never(b, player) == FALSE

check_win(b, player) ==
  \E n \in 1..Len(win_cond) :
     LET w == win_cond[n] IN
       /\ b[w[1]][w[2]] = b[w[3]][w[4]]
       /\ b[w[3]][w[4]] = b[w[5]][w[6]]
       /\ b[w[5]][w[6]] = player

\* the full board never recognised
board_full_never(b) == FALSE

board_full(b) == \A i \in Idx : \A j \in Idx : b[i][j] # " "

\* a line taken for dead as soon as it holds either symbol
no_possible_win_either(b) ==
  \A n \in 1..Len(win_cond) :
     LET w == win_cond[n]
         line == {b[w[1]][w[2]], b[w[3]][w[4]], b[w[5]][w[6]]}
     IN  "X" \in line \/ "O" \in line

no_possible_win(b) ==
  \A n \in 1..Len(win_cond) :
     LET w == win_cond[n]
         line == {b[w[1]][w[2]], b[w[3]][w[4]], b[w[5]][w[6]]}
     IN  "X" \in line /\ "O" \in line

----------------------------------------------------------------------------
(* Minimax with alpha-beta pruning *)

\* the edges tried before the corners
priority_edges_first ==
  << <<1,1>>, <<0,1>>, <<1,0>>, <<1,2>>, <<2,1>>, <<0,0>>, <<0,2>>, <<2,0>>, <<2,2>> >>

priority ==
  << <<1,1>>, <<0,0>>, <<0,2>>, <<2,0>>, <<2,2>>, <<0,1>>, <<1,0>>, <<1,2>>, <<2,1>> >>

\* [(i, j) for i, j in priority if board[i][j] == ' ']
candidates(b) == SelectSeq(priority, LAMBDA p : b[p[1]][p[2]] = " ")

\* the comparison with its operands swapped
cutoff_swapped(alpha, beta) == alpha <= beta

\* if beta <= alpha: break
cutoff(alpha, beta) == beta <= alpha

\* the trial symbol left on the board
retract_skipped(b, i, j) == b

\* board[i][j] = ' '  (minimax's retraction of its trial move)
retract(b, i, j) == place(b, i, j, " ")

\* What a call of minimax hands back: its value and the board list as the
\* call left it, and about the calls made below it: kept, every one of them
\* returned with the board as it was given; trials, the number of symbols
\* placed; deep, the number of calls nested below this one.
returned(val, b, kept, trials, deep) ==
  [val |-> val, board |-> b, kept |-> kept, trials |-> trials, deep |-> deep]

\* the same after one more candidate: r is what the recursive call on the
\* board placed returned
after_trial(acc, r, placed) ==
  [kept |-> acc.kept /\ r.kept /\ r.board = placed,
   trials |-> acc.trials + 1 + r.trials,
   deep |-> max(acc.deep, 1 + r.deep)]

RECURSIVE minimax(_, _, _, _, _)
RECURSIVE max_loop(_, _, _, _, _, _, _, _)
RECURSIVE min_loop(_, _, _, _, _, _, _, _)

\* the maximizing for-loop, at candidate number k of cs
max_loop(b, depth, cs, k, alpha, beta, max_eval, acc) ==
  IF k > Len(cs) THEN returned(max_eval, b, acc.kept, acc.trials, acc.deep)
  ELSE LET i == cs[k][1]
           j == cs[k][2]
           placed == place(b, i, j, "O")
           r == minimax(placed, depth + 1, FALSE, alpha, beta)
           undone == retract(r.board, i, j)
           max_eval2 == max(max_eval, r.val)
           alpha2 == max(alpha, r.val)
           acc2 == after_trial(acc, r, placed)
       IN  IF cutoff(alpha2, beta)
           THEN returned(max_eval2, undone, acc2.kept, acc2.trials, acc2.deep)
           ELSE max_loop(undone, depth, cs, k + 1, alpha2, beta, max_eval2, acc2)

\* the minimizing for-loop, at candidate number k of cs
min_loop(b, depth, cs, k, alpha, beta, min_eval, acc) ==
  IF k > Len(cs) THEN returned(min_eval, b, acc.kept, acc.trials, acc.deep)
  ELSE LET i == cs[k][1]
           j == cs[k][2]
           placed == place(b, i, j, "X")
           r == minimax(placed, depth + 1, TRUE, alpha, beta)
           undone == retract(r.board, i, j)
           min_eval2 == min(min_eval, r.val)
           beta2 == min(beta, r.val)
           acc2 == after_trial(acc, r, placed)
       IN  IF cutoff(alpha, beta2)
           THEN returned(min_eval2, undone, acc2.kept, acc2.trials, acc2.deep)
           ELSE min_loop(undone, depth, cs, k + 1, alpha, beta2, min_eval2, acc2)

no_trial == [kept |-> TRUE, trials |-> 0, deep |-> 0]

minimax(b, depth, is_maximizing, alpha, beta) ==
  IF check_win(b, "O") THEN returned(10 - depth, b, TRUE, 0, 0)
  ELSE IF check_win(b, "X") THEN returned(depth - 10, b, TRUE, 0, 0)
  ELSE IF board_full(b) THEN returned(0, b, TRUE, 0, 0)
  ELSE IF is_maximizing
       THEN max_loop(b, depth, candidates(b), 1, alpha, beta, -Inf, no_trial)
       ELSE min_loop(b, depth, candidates(b), 1, alpha, beta, Inf, no_trial)

----------------------------------------------------------------------------
(* best_move *)

\* a later move of equal value replaces the recorded one
better_or_equal(move_val, best_val) == move_val >= best_val

\* if move_val > best_val
better(move_val, best_val) == move_val > best_val

\* the trial move left on the board
undo_skipped(b, i, j) == b

\* board[i][j] = ' '  (best_move's retraction of its trial move)
undo(b, i, j) == place(b, i, j, " ")

\* the trial position evaluated one level further down
trial_eval_deeper(b, i, j) == minimax(place(b, i, j, "O"), 1, FALSE, -Inf, Inf)

\* board[i][j] = 'O'; move_val = minimax(board, 0, False, -inf, inf)
trial_eval(b, i, j) == minimax(place(b, i, j, "O"), 0, FALSE, -Inf, Inf)

\* best_val is the local of that name when the loop is left; tried lists the
\* cells the loop has placed an O on, in the order it did
RECURSIVE best_loop(_, _, _, _, _, _)
best_loop(b, cs, k, best_val, best, tried) ==
  IF k > Len(cs)
  THEN [move |-> best, board |-> b, best_val |-> best_val, tried |-> tried]
  ELSE LET i == cs[k][1]
           j == cs[k][2]
           r == trial_eval(b, i, j)
           undone == undo(r.board, i, j)
       IN  IF better(r.val, best_val)
           THEN best_loop(undone, cs, k + 1, r.val, <<i, j>>, Append(tried, <<i, j>>))
           ELSE best_loop(undone, cs, k + 1, best_val, best, Append(tried, <<i, j>>))

best_move(b) == best_loop(b, candidates(b), 1, -Inf, None, <<>>)

----------------------------------------------------------------------------
(* The opening book and ai_move *)

\* random.random() is drawn in tenths; AI_RANDOMNESS = 0.2
AI_RANDOMNESS == 2
Draws == {1, 2}

\* for i in range(3) for j in range(3)
row_major ==
  << <<0,0>>, <<0,1>>, <<0,2>>, <<1,0>>, <<1,1>>, <<1,2>>, <<2,0>>, <<2,1>>, <<2,2>> >>

\* the comprehension with its test negated: the taken cells
free_cells_taken(b) == SelectSeq(row_major, LAMBDA p : b[p[1]][p[2]] # " ")

\* [(i, j) for i in range(3) for j in range(3) if board[i][j] == ' ']
free_cells(b) == SelectSeq(row_major, LAMBDA p : b[p[1]][p[2]] = " ")

\* the cells taken column by column
board_key_by_columns(b) ==
  [n \in 1..9 |->
     LET cell == b[row_major[n][2]][row_major[n][1]]
     IN  IF cell # " " THEN cell ELSE "-"]

\* "".join(cell if cell != ' ' else '-' for row in board for cell in row)
board_key(b) ==
  [n \in 1..9 |->
     LET cell == b[row_major[n][1]][row_major[n][2]]
     IN  IF cell # " " THEN cell ELSE "-"]

\* the gate with its comparison turned round
gate_inverted(draw) == draw >= AI_RANDOMNESS

\* if random.random() < AI_RANDOMNESS
gate(draw) == draw < AI_RANDOMNESS

\* a lookup that always misses
in_book_never(key) == FALSE

\* if key in BOOK
in_book(key) == key \in DOMAIN BOOK

\* row and column taken the wrong way round
divmod_swapped(idx) == <<idx % 3, idx \div 3>>

\* divmod(idx, 3)
divmod(idx) == <<idx \div 3, idx % 3>>

\* random.choice(seq), the element drawn being number pick; an empty seq
\* raises IndexError
random_choice(seq, pick, b, lookups, searches) ==
  IF Len(seq) = 0
  THEN [move |-> None, via |-> "", raised |-> "IndexError",
        lookups |-> lookups, searches |-> searches, board |-> b]
  ELSE [move |-> seq[(pick % Len(seq)) + 1], via |-> "random", raised |-> "",
        lookups |-> lookups, searches |-> searches, board |-> b]

\* the numbers random.choice can draw on the call made with this draw
picks(b, draw) ==
  IF gate(draw) /\ Len(free_cells(b)) > 0 THEN 0..(Len(free_cells(b)) - 1) ELSE {0}

\* lookups and searches count the book lookups and the best_move calls made;
\* key is the local of that name, None where line 334 was not reached
ai_move(b, draw, pick) ==
  IF gate(draw) THEN random_choice(free_cells(b), pick, b, 0, 0) @@ [key |-> None]
  ELSE LET key == board_key(b) IN
       IF in_book(key)
       THEN [move |-> divmod(BOOK[key]), via |-> "book", raised |-> "",
             lookups |-> 1, searches |-> 0, board |-> b, key |-> key]
       ELSE LET r == best_move(b) IN
            IF r.move # None
            THEN [move |-> r.move, via |-> "search", raised |-> "",
                  lookups |-> 1, searches |-> 1, board |-> r.board, key |-> key]
            ELSE random_choice(free_cells(r.board), pick, r.board, 1, 1) @@ [key |-> key]

\* a book as the JSON file holds it, board key -> cell index: entries that
\* name a free cell, one that names a taken cell, and indices 9 and -1
SampleBook ==
  LET entries ==
        { << <<"X","-","-", "-","-","-", "-","-","-">>, 4 >>,
          << <<"-","-","-", "-","X","-", "-","-","-">>, 0 >>,
          << <<"X","X","-", "O","O","-", "X","-","-">>, 5 >>,
          << <<"X","O","X", "-","X","-", "O","-","-">>, 8 >>,
          << <<"X","O","-", "-","X","-", "-","-","-">>, 4 >>,
          << <<"X","O","X", "O","X","-", "-","-","-">>, 9 >>,
          << <<"X","X","O", "O","X","-", "-","-","-">>, -1 >> }
  IN  [k \in {e[1] : e \in entries} |-> (CHOOSE e \in entries : e[1] = k)[2]]

----------------------------------------------------------------------------
(* Arguments of the calls studied on their own *)

empties(b) == {p \in Idx \X Idx : b[p[1]][p[2]] = " "}
count(b, symbol) == Cardinality({p \in Idx \X Idx : b[p[1]][p[2]] = symbol})

\* the boards a caller that alternates the two symbols, X first, can hold
BoundedBoards ==
  {b \in [Idx -> [Idx -> Cell]] :
      /\ Cardinality(empties(b)) <= MaxEmpty
      /\ count(b, "X") - count(b, "O") \in {0, 1}}

Depths == {0, 1}

EmptyBook == [k \in {} |-> 0]

\* before game_loop has asked for the names and made the score dict
NoPlayers == <<>>
NoScore == [name \in {} |-> 0]

NoRet ==
  [fn |-> "", n |-> 0, depth |-> 0, is_maximizing |-> FALSE, val |-> 0, draw |-> 0,
   move |-> None, via |-> "", raised |-> "", lookups |-> 0, searches |-> 0,
   kept |-> TRUE, trials |-> 0, deep |-> 0, tried |-> <<>>,
   player |-> "", result |-> FALSE, key |-> None, alpha |-> 0, beta |-> 0,
   entry |-> None]

\* everything but the board, before any call
Idle ==
  /\ BOOK = EmptyBook
  /\ load = "failed"
  /\ warnings = 1
  /\ single_mode = FALSE
  /\ rounds = 0
  /\ players = NoPlayers
  /\ score = NoScore
  /\ stack = <<>>
  /\ turn = 0
  /\ ret = NoRet
  /\ prev = NoRet

InitMinimax ==
  /\ board \in BoundedBoards
  /\ board0 = board
  /\ pc = "arg"
  /\ Idle

InitBestMove ==
  /\ board \in BoundedBoards \cup {EmptyBoard}
  /\ board0 = board
  /\ pc = "arg"
  /\ Idle

\* minimax(board, depth, is_maximizing, -inf, +inf)
CallMinimax ==
  /\ pc = "arg"
  /\ \E depth \in Depths, is_maximizing \in BOOLEAN :
       \E r \in {minimax(board, depth, is_maximizing, -Inf, Inf)} :
         /\ board' = r.board
         /\ ret' = [NoRet EXCEPT !.fn = "minimax", !.n = 1, !.depth = depth,
                                 !.is_maximizing = is_maximizing, !.val = r.val,
                                 !.kept = r.kept, !.trials = r.trials, !.deep = r.deep,
                                 !.alpha = -Inf, !.beta = Inf]
  /\ prev' = ret
  /\ pc' = "minimax"
  /\ UNCHANGED <<players, stack, BOOK, load, warnings, single_mode, rounds, score, board0, turn>>

\* best_move(board), again on the same list after it returned
CallBestMove ==
  /\ pc \in {"arg", "best_move"}
  /\ ret.n < MaxCalls
  /\ \E r \in {best_move(board)} :
       /\ board' = r.board
       /\ ret' = [NoRet EXCEPT !.fn = "best_move", !.n = ret.n + 1, !.move = r.move,
                                   !.val = r.best_val, !.tried = r.tried]
  /\ prev' = ret
  /\ pc' = "best_move"
  /\ UNCHANGED <<players, stack, BOOK, load, warnings, single_mode, rounds, score, board0, turn>>

InitAiMove ==
  /\ board \in BoundedBoards
  /\ board0 = board
  /\ pc = "arg"
  /\ \/ BOOK = EmptyBook /\ load = "failed" /\ warnings = 1
     \/ BOOK = SampleBook /\ load = "ok" /\ warnings = 0
  /\ single_mode = TRUE
  /\ rounds = 0
  /\ players = NoPlayers
  /\ score = NoScore
  /\ stack = <<>>
  /\ turn = 0
  /\ ret = NoRet
  /\ prev = NoRet

\* ai_move(board)
CallAiMove ==
  /\ pc = "arg"
  /\ \E draw \in Draws : \E pick \in picks(board, draw) :
       \E r \in {ai_move(board, draw, pick)} :
         /\ board' = r.board
         /\ ret' = [NoRet EXCEPT !.fn = "ai_move", !.n = 1, !.draw = draw,
                                 !.move = r.move, !.via = r.via, !.raised = r.raised,
                                 !.lookups = r.lookups, !.searches = r.searches,
                                 !.key = r.key]
  /\ prev' = ret
  /\ pc' = "ai_move"
  /\ UNCHANGED <<players, stack, BOOK, load, warnings, single_mode, rounds, score, board0, turn>>

\* the boards handed to minimax together with a window
WindowBoards == {b \in BoundedBoards : Cardinality(empties(b)) <= MaxWindowEmpty}

\* the windows: alpha < beta
WindowEnds == {-Inf, -8, 0, 8, Inf}
Windows == {w \in WindowEnds \X WindowEnds : w[1] < w[2]}

InitWindow ==
  /\ board \in WindowBoards
  /\ board0 = board
  /\ pc = "arg"
  /\ Idle

\* minimax(board, depth, is_maximizing, alpha, beta)
CallMinimaxWindow ==
  /\ pc = "arg"
  /\ \E depth \in Depths, is_maximizing \in BOOLEAN, w \in Windows :
       \E r \in {minimax(board, depth, is_maximizing, w[1], w[2])} :
         /\ board' = r.board
         /\ ret' = [NoRet EXCEPT !.fn = "minimax", !.n = 1, !.depth = depth,
                                 !.is_maximizing = is_maximizing, !.val = r.val,
                                 !.kept = r.kept, !.trials = r.trials, !.deep = r.deep,
                                 !.alpha = w[1], !.beta = w[2]]
  /\ prev' = ret
  /\ pc' = "minimax"
  /\ UNCHANGED <<players, stack, BOOK, load, warnings, single_mode, rounds, score, board0, turn>>

\* The search step by step: one frame per call in progress, the board list
\* shared by all of them.  pc is "search_call" at the head of a minimax call,
\* "search_loop" at a for statement, "search_return" when a minimax call has
\* just returned to its caller, "search_done" when best_move has returned.

SearchBoards == {b \in BoundedBoards : Cardinality(empties(b)) <= MaxSearchEmpty}

\* the locals of a call: window is alpha and beta as passed, alpha and beta
\* the locals as the loop updates them, cs the candidate list, k the place in
\* it, eval is max_eval, min_eval or best_val, entry the board as passed
frame(fn, depth, is_maximizing, alpha, beta, cs, eval, b) ==
  [fn |-> fn, depth |-> depth, is_maximizing |-> is_maximizing,
   alpha |-> alpha, beta |-> beta, window |-> <<alpha, beta>>,
   cs |-> cs, k |-> 1, eval |-> eval, best |-> None, entry |-> b]

top == stack[Len(stack)]
popped == SubSeq(stack, 1, Len(stack) - 1)

\* return val from the minimax call f
minimax_returns(f, val) ==
  /\ ret' = [NoRet EXCEPT !.fn = "minimax", !.depth = f.depth,
                          !.is_maximizing = f.is_maximizing, !.val = val,
                          !.alpha = f.window[1], !.beta = f.window[2],
                          !.entry = f.entry, !.deep = Len(stack) - 1]
  /\ stack' = popped
  /\ pc' = "search_return"

InitSearch ==
  /\ board \in SearchBoards
  /\ board0 = board
  /\ pc = "arg"
  /\ Idle

\* best_move(board) up to its for statement
EnterBestMove ==
  /\ pc = "arg"
  /\ stack' = <<frame("best_move", 0, TRUE, -Inf, Inf, candidates(board), -Inf, board)>>
  /\ pc' = "search_loop"
  /\ UNCHANGED <<players, BOOK, load, warnings, single_mode, rounds, score, board, board0,
                 turn, ret, prev>>

\* the for statement with a candidate left: the trial symbol is placed and
\* minimax is called
TryCandidate ==
  /\ pc = "search_loop"
  /\ top.k <= Len(top.cs)
  /\ LET f == top
         i == f.cs[f.k][1]
         j == f.cs[f.k][2]
         placed == place(board, i, j, IF f.is_maximizing THEN "O" ELSE "X")
     IN  /\ board' = placed
         /\ stack' = Append(stack,
                       IF f.fn = "best_move"
                       THEN frame("minimax", 0, FALSE, -Inf, Inf, <<>>, 0, placed)
                       ELSE frame("minimax", f.depth + 1, ~f.is_maximizing,
                                  f.alpha, f.beta, <<>>, 0, placed))
  /\ pc' = "search_call"
  /\ UNCHANGED <<players, BOOK, load, warnings, single_mode, rounds, score, board0, turn,
                 ret, prev>>

\* minimax from its first line to its for statement, or to the return of a
\* terminal score
EnterMinimax ==
  /\ pc = "search_call"
  /\ LET f == top IN
       IF check_win(board, "O") THEN minimax_returns(f, 10 - f.depth)
       ELSE IF check_win(board, "X") THEN minimax_returns(f, f.depth - 10)
       ELSE IF board_full(board) THEN minimax_returns(f, 0)
       ELSE /\ stack' = [stack EXCEPT ![Len(stack)] =
                           [f EXCEPT !.cs = candidates(board),
                                     !.eval = IF f.is_maximizing THEN -Inf ELSE Inf]]
            /\ pc' = "search_loop"
            /\ UNCHANGED ret
  /\ UNCHANGED <<players, BOOK, load, warnings, single_mode, rounds, score, board, board0,
                 turn, prev>>

\* the for statement with no candidate left: return max_eval or min_eval, or
\* best from best_move
LeaveLoop ==
  /\ pc = "search_loop"
  /\ top.k > Len(top.cs)
  /\ IF top.fn = "minimax"
     THEN minimax_returns(top, top.eval)
     ELSE /\ ret' = [NoRet EXCEPT !.fn = "best_move", !.n = 1, !.move = top.best,
                                  !.val = top.eval, !.entry = top.entry]
          /\ stack' = popped
          /\ pc' = "search_done"
  /\ UNCHANGED <<players, BOOK, load, warnings, single_mode, rounds, score, board, board0,
                 turn, prev>>

\* back in the loop body after the call: the trial symbol is taken back, the
\* locals are updated, and minimax leaves its loop on a cut-off
ResumeAfterCall ==
  /\ pc = "search_return"
  /\ LET f == top
         i == f.cs[f.k][1]
         j == f.cs[f.k][2]
     IN  IF f.fn = "best_move"
         THEN /\ board' = undo(board, i, j)
              /\ stack' = [stack EXCEPT ![Len(stack)] =
                             IF better(ret.val, f.eval)
                             THEN [f EXCEPT !.k = @ + 1, !.eval = ret.val, !.best = <<i, j>>]
                             ELSE [f EXCEPT !.k = @ + 1]]
              /\ pc' = "search_loop"
              /\ UNCHANGED ret
         ELSE /\ board' = retract(board, i, j)
              /\ LET eval2 == IF f.is_maximizing THEN max(f.eval, ret.val)
                                                 ELSE min(f.eval, ret.val)
                     alpha2 == IF f.is_maximizing THEN max(f.alpha, ret.val) ELSE f.alpha
                     beta2 == IF f.is_maximizing THEN f.beta ELSE min(f.beta, ret.val)
                 IN  IF cutoff(alpha2, beta2)
                     THEN minimax_returns(f, eval2)
                     ELSE /\ stack' = [stack EXCEPT ![Len(stack)] =
                                         [f EXCEPT !.k = @ + 1, !.eval = eval2,
                                                   !.alpha = alpha2, !.beta = beta2]]
                          /\ pc' = "search_loop"
                          /\ UNCHANGED ret
  /\ UNCHANGED <<players, BOOK, load, warnings, single_mode, rounds, score, board0, turn,
                 prev>>

NextSearch ==
  \/ EnterBestMove
  \/ TryCandidate
  \/ EnterMinimax
  \/ LeaveLoop
  \/ ResumeAfterCall

\* every board of three rows of three cells
AllBoards == [Idx -> [Idx -> Cell]]

InitPredicates ==
  /\ board \in AllBoards
  /\ board0 = board
  /\ pc = "arg"
  /\ Idle

\* check_win(board, player)
CallCheckWin ==
  /\ pc = "arg"
  /\ \E player \in {"X", "O"} :
       ret' = [NoRet EXCEPT !.fn = "check_win", !.n = 1, !.player = player,
                            !.result = check_win(board, player)]
  /\ prev' = ret
  /\ pc' = "check_win"
  /\ UNCHANGED <<players, stack, BOOK, load, warnings, single_mode, rounds, score, board, board0, turn>>

\* no_possible_win(board)
CallNoPossibleWin ==
  /\ pc = "arg"
  /\ ret' = [NoRet EXCEPT !.fn = "no_possible_win", !.n = 1,
                          !.result = no_possible_win(board)]
  /\ prev' = ret
  /\ pc' = "no_possible_win"
  /\ UNCHANGED <<players, stack, BOOK, load, warnings, single_mode, rounds, score, board, board0, turn>>

SpecMinimax == InitMinimax /\ [][CallMinimax]_vars
SpecBestMove == InitBestMove /\ [][CallBestMove]_vars
SpecAiMove == InitAiMove /\ [][CallAiMove]_vars
SpecSearch == InitSearch /\ [][NextSearch]_vars
\* a call in progress goes on: nothing else runs
FairSearch == SpecSearch /\ WF_vars(NextSearch)
SpecWindow == InitWindow /\ [][CallMinimaxWindow]_vars
SpecPredicates == InitPredicates /\ [][CallCheckWin \/ CallNoPossibleWin]_vars

----------------------------------------------------------------------------
(* The state *)

\* BOOK maps board keys to cell indices; board is three rows of three cells;
\* score holds one count per player
TypeOK ==
  /\ \A k \in DOMAIN BOOK : Len(k) = 9 /\ BOOK[k] \in Int
  /\ load \in {"pending", "ok", "failed"}
  /\ warnings \in Nat
  /\ pc \in {"import", "menu", "play", "win", "tie", "final", "exit", "crashed",
             "arg", "minimax", "best_move", "ai_move", "check_win", "no_possible_win",
             "search_call", "search_loop", "search_return", "search_done"}
  /\ single_mode \in BOOLEAN
  /\ rounds \in Nat
  /\ players = NoPlayers \/ Len(players) = 2
  /\ DOMAIN score = {players[k] : k \in DOMAIN players}
  /\ \A name \in DOMAIN score : score[name] \in Nat
  /\ board \in [Idx -> [Idx -> Cell]]
  /\ board0 \in [Idx -> [Idx -> Cell]]
  /\ turn \in Nat
  /\ DOMAIN ret = DOMAIN NoRet
  /\ DOMAIN prev = DOMAIN NoRet
  /\ \A n \in DOMAIN stack : stack[n].fn \in {"best_move", "minimax"}

----------------------------------------------------------------------------
(* The program: import, main_menu, game_loop and play_round *)

\* BOOK = {} before the load is tried
Init ==
  /\ BOOK = EmptyBook
  /\ load = "pending"
  /\ warnings = 0
  /\ pc = "import"
  /\ single_mode = FALSE
  /\ rounds = 0
  /\ players = NoPlayers
  /\ score = NoScore
  /\ stack = <<>>
  /\ board = EmptyBoard
  /\ board0 = EmptyBoard
  /\ turn = 0
  /\ ret = NoRet
  /\ prev = NoRet

\* a handler that prints nothing
on_load_error_silent(book, printed) == [BOOK |-> book, warnings |-> printed]

\* except (FileNotFoundError, json.JSONDecodeError): print("Warning: ...")
on_load_error(book, printed) == [BOOK |-> book, warnings |-> printed + 1]

\* BOOK = json.load(...) succeeds
LoadBook ==
  /\ pc = "import"
  /\ BOOK' = SampleBook
  /\ load' = "ok"
  /\ pc' = "menu"
  /\ UNCHANGED <<players, stack, warnings, single_mode, rounds, score, board, board0, turn, ret, prev>>

\* the file is missing or is not JSON
LoadFails ==
  /\ pc = "import"
  /\ \E h \in {on_load_error(BOOK, warnings)} :
       /\ BOOK' = h.BOOK
       /\ warnings' = h.warnings
  /\ load' = "failed"
  /\ pc' = "menu"
  /\ UNCHANGED <<players, stack, single_mode, rounds, score, board, board0, turn, ret, prev>>

\* the names typed at game_loop's prompts: players = [p1, "AI"] in single
\* mode, [p1, p2] otherwise; any text is taken, a repeated name too
Names(mode) ==
  IF mode THEN {<<"A", "AI">>} ELSE {<<"A", "B">>, <<"A", "A">>}

\* main_menu choice 1 or 2, game_loop up to the first prompt of play_round
StartGame ==
  /\ pc = "menu"
  /\ \E mode \in BOOLEAN, rd \in 1..MaxRounds :
       \E names \in Names(mode) :
         /\ single_mode' = mode
         /\ rounds' = rd
         /\ players' = names
         /\ score' = [name \in {names[1], names[2]} |-> 0]
  /\ board' = EmptyBoard
  /\ turn' = 0
  /\ ret' = NoRet
  /\ pc' = "play"
  /\ UNCHANGED <<stack, BOOK, load, warnings, board0, prev>>

\* main_menu choice 3
Exit ==
  /\ pc = "menu"
  /\ pc' = "exit"
  /\ UNCHANGED <<players, stack, BOOK, load, warnings, single_mode, rounds, score, board, board0, turn, ret, prev>>

\* every turn played with X
symbol_of_x(t) == "X"

\* symbol = 'X' if turn%2==0 else 'O'
symbol_of(t) == IF t % 2 = 0 THEN "X" ELSE "O"

\* current = players[turn%2]; if single_mode and current=="AI"
ai_to_move == single_mode /\ players[(turn % 2) + 1] = "AI"

\* a list index as Python reads it: -3..-1 count from the end
py_index(i) == IF i \in -3..-1 THEN i + 3 ELSE i

\* the tie tested before the win
PlaceAndJudge_tie_first(b, r, c) ==
  IF py_index(r) \notin Idx \/ py_index(c) \notin Idx
  THEN /\ pc' = "crashed"
       /\ board' = b
       /\ UNCHANGED <<score, turn>>
  ELSE LET symbol == symbol_of(turn)
           placed == place(b, py_index(r), py_index(c), symbol)
       IN  /\ board' = placed
           /\ IF board_full(placed) \/ no_possible_win(placed)
              THEN /\ pc' = "tie"
                   /\ UNCHANGED <<score, turn>>
              ELSE IF check_win(placed, symbol)
              THEN /\ score' = [score EXCEPT ![players[(turn % 2) + 1]] = @ + 1]
                   /\ pc' = "win"
                   /\ UNCHANGED turn
              ELSE /\ pc' = "play"
                   /\ turn' = turn + 1
                   /\ UNCHANGED score

\* play_round from board[r][c]=symbol to the end of the loop body; b is the
\* board list after the move was chosen
PlaceAndJudge(b, r, c) ==
  IF py_index(r) \notin Idx \/ py_index(c) \notin Idx
  THEN \* IndexError, caught nowhere
       /\ pc' = "crashed"
       /\ board' = b
       /\ UNCHANGED <<score, turn>>
  ELSE LET symbol == symbol_of(turn)
           placed == place(b, py_index(r), py_index(c), symbol)
       IN  /\ board' = placed
           /\ IF check_win(placed, symbol)
              THEN /\ score' = [score EXCEPT ![players[(turn % 2) + 1]] = @ + 1]
                   /\ pc' = "win"
                   /\ UNCHANGED turn
              ELSE IF board_full(placed) \/ no_possible_win(placed)
              THEN /\ pc' = "tie"
                   /\ UNCHANGED <<score, turn>>
              ELSE /\ pc' = "play"
                   /\ turn' = turn + 1
                   /\ UNCHANGED score

\* get_move returns a free cell, and the rest of the loop body
HumanMove ==
  /\ pc = "play"
  /\ ~ai_to_move
  /\ \E move \in 1..9 :
       LET rc == divmod(move - 1) IN
         /\ board[rc[1]][rc[2]] = " "
         /\ PlaceAndJudge(board, rc[1], rc[2])
  /\ ret' = [NoRet EXCEPT !.fn = "get_move"]
  /\ UNCHANGED <<players, stack, BOOK, load, warnings, single_mode, rounds, board0, prev>>

\* get_move answers "Cell is taken!" or "Invalid input." and asks again
HumanRejected ==
  /\ pc = "play"
  /\ ~ai_to_move
  /\ \E move \in 0..10 :
       IF move \in 1..9
       THEN board[divmod(move - 1)[1]][divmod(move - 1)[2]] # " "
       ELSE TRUE
  /\ UNCHANGED vars

\* 'esc' at the prompt: play_round and game_loop return to the menu
HumanEsc ==
  /\ pc = "play"
  /\ ~ai_to_move
  /\ pc' = "menu"
  /\ rounds' = 0
  /\ players' = NoPlayers
  /\ score' = NoScore
  /\ board' = EmptyBoard
  /\ turn' = 0
  /\ ret' = NoRet
  /\ UNCHANGED <<stack, BOOK, load, warnings, single_mode, board0, prev>>

\* r,c = ai_move(board), and the rest of the loop body
AiMove ==
  /\ pc = "play"
  /\ ai_to_move
  /\ \E draw \in Draws : \E pick \in picks(board, draw) :
       \E a \in {ai_move(board, draw, pick)} :
         /\ ret' = [NoRet EXCEPT !.fn = "ai_move", !.n = 1, !.draw = draw,
                                 !.move = a.move, !.via = a.via, !.raised = a.raised,
                                 !.lookups = a.lookups, !.searches = a.searches,
                                 !.key = a.key]
         /\ IF a.raised # ""
            THEN /\ pc' = "crashed"
                 /\ board' = a.board
                 /\ UNCHANGED <<score, turn>>
            ELSE PlaceAndJudge(a.board, a.move[1], a.move[2])
  /\ UNCHANGED <<players, stack, BOOK, load, warnings, single_mode, rounds, board0, prev>>

\* game_loop's for loop after play_round returned: the next round, or the
\* final score
NextRound ==
  /\ pc \in {"win", "tie"}
  /\ rounds' = rounds - 1
  /\ IF rounds - 1 > 0
     THEN /\ pc' = "play"
          /\ board' = EmptyBoard
          /\ turn' = 0
          /\ ret' = NoRet
     ELSE /\ pc' = "final"
          /\ UNCHANGED <<board, turn, ret>>
  /\ UNCHANGED <<players, stack, BOOK, load, warnings, single_mode, score, board0, prev>>

\* input("Enter to menu...")
BackToMenu ==
  /\ pc = "final"
  /\ pc' = "menu"
  /\ players' = NoPlayers
  /\ score' = NoScore
  /\ board' = EmptyBoard
  /\ turn' = 0
  /\ ret' = NoRet
  /\ UNCHANGED <<stack, BOOK, load, warnings, single_mode, rounds, board0, prev>>

Next ==
  \/ LoadBook
  \/ LoadFails
  \/ StartGame
  \/ Exit
  \/ HumanMove
  \/ HumanRejected
  \/ HumanEsc
  \/ AiMove
  \/ NextRound
  \/ BackToMenu

Spec == Init /\ [][Next]_vars

\* the rounds in which every move of the AI is the one best_move returned:
\* the draw was not below AI_RANDOMNESS and the key was not in BOOK
AiMoveBySearch == AiMove /\ ret'.via = "search"

NextBySearch ==
  \/ LoadFails
  \/ StartGame
  \/ HumanMove
  \/ HumanEsc
  \/ AiMoveBySearch
  \/ NextRound
  \/ BackToMenu

SpecBySearch == Init /\ [][NextBySearch]_vars

\* play_round entered for the one round of a game played without a table
InitRound ==
  /\ BOOK = EmptyBook
  /\ load = "failed"
  /\ warnings = 1
  /\ pc = "play"
  /\ single_mode \in BOOLEAN
  /\ rounds = 1
  /\ players \in Names(single_mode)
  /\ score = [name \in {players[1], players[2]} |-> 0]
  /\ stack = <<>>
  /\ board = EmptyBoard
  /\ board0 = EmptyBoard
  /\ turn = 0
  /\ ret = NoRet
  /\ prev = NoRet

NextInRound ==
  \/ HumanMove
  \/ HumanRejected
  \/ HumanEsc
  \/ AiMove
  \/ NextRound
  \/ BackToMenu

\* every prompt of get_move is answered in the end by a free cell or by esc,
\* and a call of ai_move returns
FairRound ==
  /\ InitRound /\ [][NextInRound]_vars
  /\ WF_vars(HumanMove \/ HumanEsc)
  /\ WF_vars(AiMove)

----------------------------------------------------------------------------
(* The value of a position by exhaustive search, no window and no cut-off:  *)
(* O's line at depth d is worth 10 - d, X's line d - 10, a full board 0;    *)
(* O takes the greatest value of its moves and X the least.                 *)

\* symbol holds one of the three rows, three columns or two diagonals
HasLine(b, symbol) ==
  \/ \E i \in Idx : \A j \in Idx : b[i][j] = symbol
  \/ \E j \in Idx : \A i \in Idx : b[i][j] = symbol
  \/ \A i \in Idx : b[i][i] = symbol
  \/ \A i \in Idx : b[i][2 - i] = symbol

RECURSIVE Exhaustive(_, _, _)
Exhaustive(b, depth, is_maximizing) ==
  IF HasLine(b, "O") THEN 10 - depth
  ELSE IF HasLine(b, "X") THEN depth - 10
  ELSE IF empties(b) = {} THEN 0
  ELSE LET symbol == IF is_maximizing THEN "O" ELSE "X"
           vals == {Exhaustive(place(b, p[1], p[2], symbol), depth + 1, ~is_maximizing) :
                      p \in empties(b)}
       IN  IF is_maximizing
           THEN CHOOSE v \in vals : \A w \in vals : w <= v
           ELSE CHOOSE v \in vals : \A w \in vals : v <= w

\* C1: the full-window call of minimax returns the value of exhaustive
\* minimax, for every board, either side to move and every depth: the
\* cut-offs never change the value.
C1_PruningInvariance ==
  pc = "minimax" => ret.val = Exhaustive(board0, ret.depth, ret.is_maximizing)

\* a call on a board deep enough for a cut-off to happen has returned
C1_Witness ==
  /\ pc = "minimax"
  /\ Cardinality(empties(board0)) = MaxEmpty
  /\ ~HasLine(board0, "X") /\ ~HasLine(board0, "O")
  /\ ret.val # 0

----------------------------------------------------------------------------
(* best_move: what it returns *)

\* position of a cell in the order centre, corners, edges
Rank(p) == CHOOSE k \in 1..Len(priority) : priority[k] = p

\* the value of the trial placement of O on p
TrialValue(b, p) == minimax(place(b, p[1], p[2], "O"), 0, FALSE, -Inf, Inf).val

\* C2: best_move returns the Empty cell whose trial placement of O has the
\* greatest minimax value, the first of them in the order centre, corners,
\* edges; it returns None exactly when the board has no Empty cell.
C2_BestMoveIsFirstGreatest ==
  pc = "best_move" =>
    LET free == empties(board0)
        value == [p \in free |-> TrialValue(board0, p)]
    IN  /\ (ret.move = None) <=> (free = {})
        /\ ret.move # None =>
             /\ ret.move \in free
             /\ \A p \in free :
                  \/ value[p] < value[ret.move]
                  \/ value[p] = value[ret.move] /\ Rank(ret.move) <= Rank(p)

\* a call where two cells tie for the greatest value and the first is returned
C2_Witness ==
  /\ pc = "best_move"
  /\ \E p \in empties(board0) :
       /\ p # ret.move
       /\ TrialValue(board0, p) = TrialValue(board0, ret.move)
       /\ \E q \in empties(board0) : TrialValue(board0, q) < TrialValue(board0, p)

\* a call on a board without Empty cell returned None
C2_WitnessNone == pc = "best_move" /\ empties(board0) = {} /\ ret.move = None

\* C3: best_move leaves the board it was given as it found it, and a second
\* call on the same board returns the same move and leaves it unchanged again.
C3_BestMoveKeepsBoard ==
  pc = "best_move" =>
    /\ board = board0
    /\ prev.fn = "best_move" => ret.move = prev.move

\* a second call has returned, on a board where trial moves were made
C3_Witness ==
  /\ pc = "best_move"
  /\ prev.fn = "best_move"
  /\ ret.n = 2
  /\ Cardinality(empties(board0)) >= 2

\* filling p with O completes a line of three O
Completes(b, p, symbol) ==
  /\ b[p[1]][p[2]] = " "
  /\ ~HasLine(b, symbol)
  /\ HasLine(place(b, p[1], p[2], symbol), symbol)

\* C4: when some Empty cell completes a line of three O, best_move returns a
\* cell that completes a line of three O.
C4_TakesImmediateWin ==
  (pc = "best_move" /\ \E p \in empties(board0) : Completes(board0, p, "O"))
    => (ret.move # None /\ Completes(board0, ret.move, "O"))

\* a call on a board with a winning cell that is not the first candidate
C4_Witness ==
  /\ pc = "best_move"
  /\ \E p \in empties(board0) : Completes(board0, p, "O")
  /\ ~Completes(board0, candidates(board0)[1], "O")

\* the cells where X completes a line on its next turn
Threats(b) == {p \in empties(b) : Completes(b, p, "X")}

\* C5 as stated: with exactly one cell where X wins next turn, best_move
\* returns that cell.
C5_AlwaysBlocks ==
  (pc = "best_move" /\ Cardinality(Threats(board0)) = 1)
    => ret.move \in Threats(board0)

\* C5 amended: with exactly one cell where X wins next turn, and no cell
\* where O completes a line at once (nor a line of O already), best_move
\* returns the cell that blocks X.
C5_BlocksUnlessWinning ==
  (/\ pc = "best_move"
   /\ Cardinality(Threats(board0)) = 1
   /\ ~HasLine(board0, "O")
   /\ ~\E p \in empties(board0) : Completes(board0, p, "O"))
    => ret.move \in Threats(board0)

\* a call that blocked: the threatened cell is not the first candidate
C5_Witness ==
  /\ pc = "best_move"
  /\ Cardinality(Threats(board0)) = 1
  /\ ~HasLine(board0, "O")
  /\ ~\E p \in empties(board0) : Completes(board0, p, "O")
  /\ Cardinality(empties(board0)) >= 3
  /\ candidates(board0)[1] \notin Threats(board0)
  /\ ret.move \in Threats(board0)

\* C10: on the empty board best_move returns the centre.
C10_EmptyBoardCentre ==
  (pc = "best_move" /\ board0 = EmptyBoard) => ret.move = <<1, 1>>

\* best_move has returned from the empty board
C10_Witness == pc = "best_move" /\ board0 = EmptyBoard /\ ret.move # None

----------------------------------------------------------------------------
(* ai_move: the order of its three sources *)

\* the nine cells of the board, left to right and top to bottom, "-" for Empty
CanonicalKey(b) ==
  [n \in 1..9 |->
     LET cell == b[(n - 1) \div 3][(n - 1) % 3]
     IN  IF cell = " " THEN "-" ELSE cell]

\* C6: when the draw is not below the override probability and the key of
\* the board is in the book with index idx, ai_move returns
\* (idx / 3, idx % 3) and best_move is not called.
C6_BookHitBypassesSearch ==
  (/\ pc = "ai_move"
   /\ ~(ret.draw < AI_RANDOMNESS)
   /\ CanonicalKey(board0) \in DOMAIN BOOK)
    => LET idx == BOOK[CanonicalKey(board0)] IN
         /\ ret.raised = ""
         /\ ret.move = <<idx \div 3, idx % 3>>
         /\ ret.searches = 0

\* a call answered from the book, with an index whose row and column differ
C6_Witness ==
  /\ pc = "ai_move"
  /\ ~(ret.draw < AI_RANDOMNESS)
  /\ CanonicalKey(board0) \in DOMAIN BOOK
  /\ ret.via = "book"
  /\ ret.move = <<1, 2>>

\* C7: on a board without Empty cell ai_move returns None and does not end
\* in an error, whichever branch is taken.
C7_FullBoardReturnsNone ==
  (pc = "ai_move" /\ empties(board0) = {})
    => (ret.raised = "" /\ ret.move = None)

\* C8: the move ai_move returns comes from exactly one of the random
\* override, the book and the search, tried in that order: the book is
\* looked up only when the draw is not below the override probability, and
\* best_move runs only when the lookup missed.
C8_StrictFallbackChain ==
  pc = "ai_move" =>
    LET fired == ret.draw < AI_RANDOMNESS
        hit == CanonicalKey(board0) \in DOMAIN BOOK
    IN  /\ ret.lookups = (IF fired THEN 0 ELSE 1)
        /\ ret.searches = (IF ~fired /\ ~hit THEN 1 ELSE 0)
        /\ ret.raised = "" =>
             /\ ret.via = (IF fired THEN "random" ELSE IF hit THEN "book" ELSE "search")
             /\ ret.via = "random" => ret.move \in empties(board0)
             /\ ret.via = "book" => ret.move = <<BOOK[CanonicalKey(board0)] \div 3,
                                                 BOOK[CanonicalKey(board0)] % 3>>
             /\ ret.via = "search" => ret.move = best_move(board0).move

\* calls answered by each of the three sources return
C8_Witness ==
  /\ pc = "ai_move"
  /\ ret.via = "search"
  /\ BOOK # EmptyBook
  /\ ret.lookups = 1 /\ ret.searches = 1

\* the override fired on a board whose key is in the book
C8_WitnessRandom ==
  /\ pc = "ai_move"
  /\ ret.via = "random"
  /\ CanonicalKey(board0) \in DOMAIN BOOK

----------------------------------------------------------------------------
(* The book that could not be loaded *)

\* C9: when the book is missing or cannot be parsed, the program goes on:
\* the table is empty from then on, one diagnostic was printed, and every
\* selection that is not overridden by the random draw is answered by the
\* search, none ending in an error.
C9_LoadFailureDegradesToSearch ==
  load = "failed" =>
    /\ pc \notin {"import", "crashed"}
    /\ BOOK = EmptyBook
    /\ warnings = 1
    /\ ret.fn = "ai_move" =>
         /\ ret.raised = ""
         /\ ret.lookups + ret.searches > 0 => (ret.via = "search" /\ ret.searches = 1)
         /\ ~(ret.draw < AI_RANDOMNESS) => ret.via = "search"

\* after a failed load the search has answered, some moves into a round
C9_Witness ==
  /\ load = "failed"
  /\ ret.fn = "ai_move"
  /\ ret.via = "search"
  /\ turn >= 3

----------------------------------------------------------------------------
(* C11: best_move on a board with one Empty cell *)

OnlyCell(b) == CHOOSE p \in empties(b) : TRUE

\* C11 as stated: on a board with only one Empty cell best_move returns that
\* cell and the value of the resulting board is 0, a draw.
C11_LastCellIsDraw ==
  (pc = "best_move" /\ Cardinality(empties(board0)) = 1)
    => ret.move = OnlyCell(board0) /\ ret.val = 0

\* C11: on a board with only one Empty cell best_move returns that cell; the
\* value of the resulting board is 0 when the resulting board holds no
\* complete line, 10 when it holds a line of O, and -10 when it holds a line
\* of X and none of O.
C11_LastCellDrawUnlessLine ==
  (pc = "best_move" /\ Cardinality(empties(board0)) = 1)
    => LET after == place(board0, OnlyCell(board0)[1], OnlyCell(board0)[2], "O")
       IN  /\ ret.move = OnlyCell(board0)
           /\ (~HasLine(after, "O") /\ ~HasLine(after, "X")) => ret.val = 0
           /\ HasLine(after, "O") => ret.val = 10
           /\ (HasLine(after, "X") /\ ~HasLine(after, "O")) => ret.val = -10

\* best_move has filled the last cell of a board that ends without a line
C11_Witness ==
  /\ pc = "best_move"
  /\ Cardinality(empties(board0)) = 1
  /\ LET after == place(board0, OnlyCell(board0)[1], OnlyCell(board0)[2], "O")
     IN  ~HasLine(after, "O") /\ ~HasLine(after, "X")
  /\ ret.move = OnlyCell(board0)
  /\ ret.val = 0

----------------------------------------------------------------------------
(* C12: the candidate moves *)

\* centre, corners, edges
CentreCornersEdges ==
  << <<1,1>>, <<0,0>>, <<0,2>>, <<2,0>>, <<2,2>>, <<0,1>>, <<1,0>>, <<1,2>>, <<2,1>> >>

PlaceIn(seq, p) == CHOOSE k \in 1..Len(seq) : seq[k] = p

EmptyCellsInOrder(seq, b) ==
  /\ {seq[k] : k \in 1..Len(seq)} = empties(b)
  /\ Len(seq) = Cardinality(empties(b))
  /\ \A k, l \in 1..Len(seq) :
       k < l => PlaceIn(CentreCornersEdges, seq[k]) < PlaceIn(CentreCornersEdges, seq[l])

\* C12: the cells best_move places its trial O on, and the candidate list
\* minimax makes of the same board, are exactly the Empty cells of the board,
\* each once, in the order centre, corners (0,0),(0,2),(2,0),(2,2), edges
\* (0,1),(1,0),(1,2),(2,1); no occupied cell is trialed.
C12_CandidatesAreEmptyCellsInOrder ==
  pc = "best_move" =>
    /\ EmptyCellsInOrder(ret.tried, board0)
    /\ EmptyCellsInOrder(candidates(board0), board0)

\* best_move has trialed a corner first and an edge later, on a board whose
\* centre is taken
C12_Witness ==
  /\ pc = "best_move"
  /\ board0[1][1] # " "
  /\ Len(ret.tried) >= 3
  /\ ret.tried[1] \in {<<0,0>>, <<0,2>>, <<2,0>>, <<2,2>>}
  /\ ret.tried[Len(ret.tried)] \in {<<0,1>>, <<1,0>>, <<1,2>>, <<2,1>>}

----------------------------------------------------------------------------
(* C13: the four classifications of minimax, on the boards of a round *)

\* the moves so far were legal and alternating: two people at the keyboard,
\* or the AI without a book that could name a taken cell
LegalPlay == pc \in {"play", "win", "tie"} /\ (~single_mode \/ BOOK = EmptyBook)

\* how many of the given conditions hold
HowMany(conds) == Cardinality({k \in 1..Len(conds) : conds[k]})

\* C13 as stated: on every board of legal alternating play exactly one of the
\* four holds: O has a complete line, X has a complete line, the board is
\* full, the board is non-terminal.
C13_ExactlyOneOfFour ==
  LegalPlay =>
    HowMany(<< HasLine(board, "O"),
               HasLine(board, "X"),
               empties(board) = {},
               ~HasLine(board, "O") /\ ~HasLine(board, "X") /\ empties(board) # {} >>) = 1

\* C13: on every board of legal alternating play X and O never both hold a
\* complete line, and a line of O never comes with a full board, so that
\* exactly one of these holds: O has a complete line, X has a complete line,
\* the board is full without a complete line, the board is non-terminal. A
\* line of X can come with a full board.
C13_LineBeforeFull ==
  LegalPlay =>
    /\ ~(HasLine(board, "O") /\ HasLine(board, "X"))
    /\ ~(HasLine(board, "O") /\ empties(board) = {})
    /\ HowMany(<< HasLine(board, "O"),
                  HasLine(board, "X"),
                  empties(board) = {} /\ ~HasLine(board, "O") /\ ~HasLine(board, "X"),
                  ~HasLine(board, "O") /\ ~HasLine(board, "X") /\ empties(board) # {} >>) = 1

\* X has completed a line with the ninth symbol of a round
C13_Witness ==
  /\ LegalPlay
  /\ pc = "win"
  /\ HasLine(board, "X")
  /\ empties(board) = {}

----------------------------------------------------------------------------
(* C14: the random override of ai_move *)

\* C14: when the random draw is below AI_RANDOMNESS and the board has an
\* Empty cell, ai_move returns, without raising, a cell that is Empty on the
\* board it was given, and leaves the board as it was.
C14_OverrideReturnsEmptyCell ==
  (pc = "ai_move" /\ ret.draw < AI_RANDOMNESS /\ empties(board0) # {})
    => /\ ret.raised = ""
       /\ ret.move \in empties(board0)
       /\ board = board0

\* the override has drawn the last of several Empty cells, on a board whose
\* first cell is taken
C14_Witness ==
  /\ pc = "ai_move"
  /\ ret.draw < AI_RANDOMNESS
  /\ ret.via = "random"
  /\ Cardinality(empties(board0)) >= 3
  /\ board0[0][0] # " "
  /\ ret.move \in empties(board0)
  /\ \A p \in empties(board0) : 3 * p[1] + p[2] <= 3 * ret.move[1] + ret.move[2]

----------------------------------------------------------------------------
(* C15: a board on which both symbols hold a line *)

\* C15 as stated: best_move, given a board on which both X and O hold a
\* complete line, ends with an error and names no move.
C15_BothLinesRejected ==
  (pc = "best_move" /\ HasLine(board0, "X") /\ HasLine(board0, "O"))
    => ret.raised # "" /\ ret.move = None

----------------------------------------------------------------------------
(* C16: the value of a trial move that completes a line of O *)

\* C16 as stated: the value best_move computes for a trial move that
\* completes a line of three O is 10 - (depth + 1), depth being 0 for the
\* position best_move is called on.
C16_ImmediateWinValueNine ==
  (pc = "best_move" /\ ret.move # None /\ Completes(board0, ret.move, "O"))
    => ret.val = 10 - (0 + 1)

\* C16: the value best_move computes for a trial move that completes a line
\* of three O is 10 - 0 = 10: the trial position is handed to minimax with
\* depth 0.
C16_ImmediateWinValueTen ==
  (pc = "best_move" /\ ret.move # None /\ Completes(board0, ret.move, "O"))
    => ret.val = 10 - 0

\* best_move has returned a cell that completes a line of O, on a board
\* where other cells were open too
C16_Witness ==
  /\ pc = "best_move"
  /\ ret.move # None
  /\ Completes(board0, ret.move, "O")
  /\ Cardinality(empties(board0)) >= 3
  /\ ret.val = 10

----------------------------------------------------------------------------
(* C17: minimax leaves the board as it found it *)

\* C17: a call of minimax returns with every cell of the board as it was at
\* the call, and so did every call made below it, at every level and also
\* when its loop was left by a cut-off: the trial symbol is taken back
\* before the next candidate is placed or the loop is left.
C17_MinimaxKeepsBoard ==
  pc = "minimax" => board = board0 /\ ret.kept

\* the symbols a search without cut-offs places on the way from b
RECURSIVE Unpruned(_, _)
RECURSIVE UnprunedOver(_, _, _)
Unpruned(b, is_maximizing) ==
  IF HasLine(b, "O") \/ HasLine(b, "X") \/ empties(b) = {} THEN 0
  ELSE UnprunedOver(empties(b), b, is_maximizing)

UnprunedOver(cells, b, is_maximizing) ==
  IF cells = {} THEN 0
  ELSE LET p == CHOOSE q \in cells : TRUE
           symbol == IF is_maximizing THEN "O" ELSE "X"
       IN  1 + Unpruned(place(b, p[1], p[2], symbol), ~is_maximizing)
             + UnprunedOver(cells \ {p}, b, is_maximizing)

\* a call has returned whose loops were cut off, having placed fewer symbols
\* than a search without cut-offs does, with calls nested as deep as the
\* Empty cells allow
C17_Witness ==
  /\ pc = "minimax"
  /\ Cardinality(empties(board0)) = MaxEmpty
  /\ ret.deep = MaxEmpty
  /\ ret.trials < Unpruned(board0, ret.is_maximizing)
  /\ board = board0
  /\ ret.kept

----------------------------------------------------------------------------
(* C18: minimax on a terminal board *)

\* C18: on a board with a complete line or no Empty cell minimax returns
\* without placing a symbol or calling itself: 10 - depth for a line of O,
\* depth - 10 for a line of X, 0 for a full board with no line (one of the
\* first two where both symbols hold a line); on any other board it places
\* at least one symbol.
C18_TerminalReturnsAtOnce ==
  pc = "minimax" =>
    LET o == HasLine(board0, "O")
        x == HasLine(board0, "X")
        full == empties(board0) = {}
    IN  /\ (o \/ x \/ full) => (ret.trials = 0 /\ ret.deep = 0 /\ board = board0)
        /\ (o /\ ~x) => ret.val = 10 - ret.depth
        /\ (x /\ ~o) => ret.val = ret.depth - 10
        /\ (o /\ x) => ret.val \in {10 - ret.depth, ret.depth - 10}
        /\ (full /\ ~o /\ ~x) => ret.val = 0
        /\ ~(o \/ x \/ full) => (ret.trials >= 1 /\ ret.deep >= 1)

\* minimax was called at depth 1 on a board with a line of O and Empty
\* cells left, and returned 9 without a trial
C18_Witness ==
  /\ pc = "minimax"
  /\ HasLine(board0, "O") /\ ~HasLine(board0, "X")
  /\ Cardinality(empties(board0)) >= 2
  /\ ret.depth = 1
  /\ ret.val = 9
  /\ ret.trials = 0

----------------------------------------------------------------------------
(* C19, C20: no_possible_win and check_win *)

\* the 8 lines, as sets of cells
Lines ==
  {{<<i, j>> : j \in Idx} : i \in Idx} \cup {{<<i, j>> : i \in Idx} : j \in Idx}
    \cup {{<<i, i>> : i \in Idx}, {<<i, 2 - i>> : i \in Idx}}

EveryLineMixed(b) ==
  \A L \in Lines : (\E p \in L : b[p[1]][p[2]] = "X") /\ (\E p \in L : b[p[1]][p[2]] = "O")

\* the boards that placements into Empty cells of b can lead to
Continuations(b) ==
  {[i \in Idx |-> [j \in Idx |-> IF b[i][j] = " " THEN f[<<i, j>>] ELSE b[i][j]]] :
     f \in [empties(b) -> Cell]}

\* C19: no_possible_win(board) is true if and only if every one of the 8
\* lines holds both an X and an O; and when it is true, no placements of X or
\* O into Empty cells, however many and in whatever order, lead to a board
\* with a complete line.
C19_DeadIffEveryLineMixed ==
  pc = "no_possible_win" =>
    /\ ret.result = EveryLineMixed(board0)
    /\ ret.result => \A c \in Continuations(board0) : ~HasLine(c, "X") /\ ~HasLine(c, "O")

\* no_possible_win was true of a board that still has an Empty cell
C19_Witness ==
  /\ pc = "no_possible_win"
  /\ ret.result
  /\ Cardinality(empties(board0)) >= 1
  /\ Cardinality(Continuations(board0)) >= 3

\* C20: check_win(board, symbol), symbol being X or O, is true if and only
\* if one of the 3 rows, 3 columns and 2 diagonals has all three cells equal
\* to symbol; on the empty board it is false for both symbols, and a line of
\* three Empty cells never makes it true.
C20_CheckWinIffLine ==
  pc = "check_win" =>
    /\ ret.result = HasLine(board0, ret.player)
    /\ ret.result = (\E L \in Lines : \A p \in L : board0[p[1]][p[2]] = ret.player)
    /\ board0 = EmptyBoard => ~ret.result
    /\ (~HasLine(board0, "X") /\ ~HasLine(board0, "O")) => ~ret.result

\* check_win was false of a board with a line of three Empty cells and a
\* line of the other symbol
C20_Witness ==
  /\ pc = "check_win"
  /\ ret.player = "O"
  /\ ~ret.result
  /\ HasLine(board0, " ")
  /\ HasLine(board0, "X")

----------------------------------------------------------------------------
(* C21: the key ai_move looks up *)

\* the board a key spells, read row by row
BoardOfKey(key) ==
  [i \in Idx |-> [j \in Idx |-> IF key[3 * i + j + 1] = "-" THEN " " ELSE key[3 * i + j + 1]]]

\* C21: the key ai_move builds has 9 characters, the cells row by row from
\* the top left, '-' for an Empty cell and the symbol otherwise; the board
\* can be read back from the key, so two boards have the same key only if
\* they are equal cell for cell, and the entry found in the table is the one
\* whose key spells the board given.
C21_KeySpellsTheBoard ==
  (pc = "ai_move" /\ ret.key # None) =>
    /\ Len(ret.key) = 9
    /\ \A i \in Idx : \A j \in Idx :
         ret.key[3 * i + j + 1] = (IF board0[i][j] = " " THEN "-" ELSE board0[i][j])
    /\ BoardOfKey(ret.key) = board0
    /\ \A k \in DOMAIN BOOK : k = ret.key <=> BoardOfKey(k) = board0
    /\ ret.via = "book" <=> \E k \in DOMAIN BOOK : BoardOfKey(k) = board0

\* the key of a board with all three kinds of cell, not symmetric about its
\* diagonal, has found its entry in the table
C21_Witness ==
  /\ pc = "ai_move"
  /\ ret.key # None
  /\ ret.via = "book"
  /\ board0[0][1] = "O" /\ board0[1][0] = " " /\ board0[0][0] = "X"

----------------------------------------------------------------------------
(* C26: the value of a board on which no line can be completed *)

\* C26: when no_possible_win(board) is true, the full-window call of minimax
\* on the board returns 0, whichever side is to move and at either depth.
C26_DeadBoardIsDraw ==
  (pc = "minimax" /\ no_possible_win(board0)) => ret.val = 0

\* minimax has searched a board that no_possible_win calls dead and that
\* still had an Empty cell to try
C26_Witness ==
  /\ pc = "minimax"
  /\ no_possible_win(board0)
  /\ EveryLineMixed(board0)
  /\ Cardinality(empties(board0)) = 1
  /\ ret.trials = 1
  /\ ret.depth = 1
  /\ ret.val = 0

----------------------------------------------------------------------------
(* C25: minimax with a window *)

\* C25: for a window alpha < beta, minimax returns the value v of exhaustive
\* minimax when alpha < v < beta; when v <= alpha it returns a value between
\* v and alpha, an upper bound of v; when v >= beta it returns a value
\* between beta and v, a lower bound of v.
C25_FailSoftBound ==
  pc = "minimax" =>
    LET v == Exhaustive(board0, ret.depth, ret.is_maximizing)
    IN  /\ (ret.alpha < v /\ v < ret.beta) => ret.val = v
        /\ v <= ret.alpha => (v <= ret.val /\ ret.val <= ret.alpha)
        /\ v >= ret.beta => (ret.beta <= ret.val /\ ret.val <= v)

\* a call has returned a bound that is not the value: the search was cut
\* off below a window that lies above the value
C25_Witness ==
  /\ pc = "minimax"
  /\ ret.alpha > -Inf /\ ret.beta < Inf
  /\ Exhaustive(board0, ret.depth, ret.is_maximizing) < ret.val
  /\ ret.val <= ret.alpha

----------------------------------------------------------------------------
(* C22: the depth of the recursion *)

\* every call of minimax in progress was given a board with exactly one
\* Empty cell fewer than the board given to its caller, so that there are
\* never more of them than the board given to best_move has Empty cells
OneFewerEachCall ==
  /\ \A n \in 2..Len(stack) :
       Cardinality(empties(stack[n].entry)) = Cardinality(empties(stack[n - 1].entry)) - 1
  /\ \A n \in 1..Len(stack) : (stack[n].fn = "best_move") = (n = 1)
  /\ Len(stack) > 0 => stack[1].entry = board0
  /\ Len(stack) - 1 <= Cardinality(empties(board0))
  /\ Len(stack) - 1 <= 9

\* C22: best_move and the calls of minimax it makes terminate: each call of
\* minimax is made on a board with exactly one Empty cell fewer, the calls
\* in progress are never more than the Empty cells of the board passed in,
\* at most 9, and best_move returns.
C22_SearchTerminates ==
  []OneFewerEachCall /\ <>(pc = "search_done")

\* minimax has been called on a board without an Empty cell left, as many
\* calls deep as the board given to best_move had Empty cells
C22_Witness ==
  /\ pc = "search_call"
  /\ Cardinality(empties(board0)) = MaxSearchEmpty
  /\ Len(stack) - 1 = MaxSearchEmpty
  /\ empties(board) = {}

----------------------------------------------------------------------------
(* C27: range and sign of the values *)

\* who wins under best play by both: 1 for O, -1 for X, 0 for a draw
RECURSIVE Outcome(_, _)
Outcome(b, is_maximizing) ==
  IF HasLine(b, "O") THEN 1
  ELSE IF HasLine(b, "X") THEN -1
  ELSE IF empties(b) = {} THEN 0
  ELSE LET symbol == IF is_maximizing THEN "O" ELSE "X"
           outs == {Outcome(place(b, p[1], p[2], symbol), ~is_maximizing) : p \in empties(b)}
       IN  IF is_maximizing
           THEN (IF 1 \in outs THEN 1 ELSE IF 0 \in outs THEN 0 ELSE -1)
           ELSE (IF -1 \in outs THEN -1 ELSE IF 0 \in outs THEN 0 ELSE 1)

Sign(v) == IF v > 0 THEN 1 ELSE IF v < 0 THEN -1 ELSE 0

\* C27 as stated: every value a call of minimax returns in a search started
\* by best_move is an integer from -10 to 10 whose sign tells the outcome
\* under best play: positive exactly when O can force a win, negative
\* exactly when X can, 0 exactly for a draw.
C27_EveryValueTellsOutcome ==
  pc = "search_return" =>
    /\ ret.val \in -10..10
    /\ Sign(ret.val) = Outcome(ret.entry, ret.is_maximizing)

\* C27: every value a call of minimax returns in a search started by
\* best_move is an integer from -10 to 10, the depth staying below 10; its
\* sign tells the outcome under best play whenever the value lies strictly
\* inside the window the call was given, so for every call made with the
\* full window, the trial values of best_move among them; a board with a
\* complete line is never valued 0.
C27_ValueInsideWindowTellsOutcome ==
  pc = "search_return" =>
    /\ ret.val \in -10..10
    /\ ret.depth \in 0..8
    /\ (ret.alpha < ret.val /\ ret.val < ret.beta)
         => Sign(ret.val) = Outcome(ret.entry, ret.is_maximizing)
    /\ (ret.alpha = -Inf /\ ret.beta = Inf)
         => Sign(ret.val) = Outcome(ret.entry, ret.is_maximizing)
    /\ Len(stack) = 1 => (ret.alpha = -Inf /\ ret.beta = Inf /\ ret.depth = 0)
    /\ (HasLine(ret.entry, "O") \/ HasLine(ret.entry, "X")) => ret.val # 0

\* a trial value of best_move that tells a loss X can force, not yet on
\* the board
C27_Witness ==
  /\ pc = "search_return"
  /\ Len(stack) = 1
  /\ ret.val < 0
  /\ ~HasLine(ret.entry, "X")
  /\ Outcome(ret.entry, ret.is_maximizing) = -1

----------------------------------------------------------------------------
(* C23: the AI that always searches *)

\* C23: in a single-player round, X the human moving first, in which every
\* move of the AI came from best_move (the table is empty, no random
\* override), the board never holds a complete line of X: a round ends with
\* a line of O or in a tie, and the human's count stays 0.
C23_SearchNeverLoses ==
  (single_mode /\ pc \in {"play", "win", "tie", "final"}) =>
    /\ ~HasLine(board, "X")
    /\ pc = "win" => HasLine(board, "O")
    /\ score[players[1]] = 0

\* the human has let the AI complete a line
C23_Witness ==
  /\ single_mode
  /\ pc = "win"
  /\ HasLine(board, "O")
  /\ ret.via = "search"
  /\ score[players[2]] = 1

\* a round against the searching AI has come to a tie on a full board
C23_WitnessTie ==
  /\ single_mode
  /\ pc = "tie"
  /\ empties(board) = {}

----------------------------------------------------------------------------
(* C24: where the moves of a round are written *)

\* C24 as stated: every move of a round, from a human or from any branch of
\* ai_move, is written to a cell of the grid that was Empty: no index error
\* ends the round, the symbols on the board are as many as the moves made,
\* and the count of X less the count of O is 0 or 1.
C24_EveryMoveOnEmptyCell ==
  /\ pc # "crashed"
  /\ pc = "play" => count(board, "X") + count(board, "O") = turn
  /\ pc \in {"win", "tie"} => count(board, "X") + count(board, "O") = turn + 1
  /\ pc \in {"play", "win", "tie"} => count(board, "X") - count(board, "O") \in {0, 1}

\* the same without the index error: a symbol is never overwritten
C24_NeverOverwritten ==
  /\ pc = "play" => count(board, "X") + count(board, "O") = turn
  /\ pc \in {"win", "tie"} => count(board, "X") + count(board, "O") = turn + 1

----------------------------------------------------------------------------
(* C28: win before tie *)

\* the symbol placed last in a round that has ended
Mover == symbol_of(turn)

\* C28: play_round tests the line of the symbol just placed before it tests
\* for a tie: a round ended by a move that completes a line, be it on the
\* last Empty cell or on a board where no other line can be completed, is a
\* win of the mover and raises the mover's count; a tie is declared only
\* when the mover has no complete line and the board is full or dead.
C28_WinBeforeTie ==
  /\ (pc \in {"win", "tie"} /\ HasLine(board, Mover)) => pc = "win"
  /\ pc = "win" => (HasLine(board, Mover) /\ score[players[(turn % 2) + 1]] >= 1)
  /\ pc = "tie" => /\ ~HasLine(board, Mover)
                   /\ empties(board) = {} \/ EveryLineMixed(board)

\* X has won with the ninth symbol: the board is full, and the round is a
\* win, not a tie
C28_Witness ==
  /\ pc = "win"
  /\ Mover = "X"
  /\ HasLine(board, "X")
  /\ empties(board) = {}
  /\ board_full(board)

\* a win on a board all of whose other lines hold both symbols
C28_WitnessDead ==
  /\ pc = "win"
  /\ empties(board) # {}
  /\ Cardinality({L \in Lines : ~((\E p \in L : board[p[1]][p[2]] = "X")
                                   /\ (\E p \in L : board[p[1]][p[2]] = "O"))}) = 1

----------------------------------------------------------------------------
(* C29: a round ends within nine placements *)

\* every move goes to an Empty cell: two humans, or the AI without a table
EmptyCellsOnly == ~single_mode \/ BOOK = EmptyBook

\* turn counts the symbols placed, X and O taking turns, X first
TurnsCounted ==
  (EmptyCellsOnly /\ pc \in {"play", "win", "tie"}) =>
    LET placed == IF pc = "play" THEN turn ELSE turn + 1
    IN  /\ placed <= 9
        /\ pc = "play" => turn <= 8
        /\ count(board, "X") = (placed + 1) \div 2
        /\ count(board, "O") = placed \div 2

\* a step of a round places X on an even turn and O on an odd one, on an
\* Empty cell; once a win or a tie is declared nothing is placed on the board
PlacedInTurn ==
  /\ (EmptyCellsOnly /\ pc = "play" /\ pc' \in {"play", "win", "tie"})
       => \E p \in empties(board) :
            board' = place(board, p[1], p[2], IF turn % 2 = 0 THEN "X" ELSE "O")
  /\ pc \in {"win", "tie"} => (board' = board \/ (board' = EmptyBoard /\ turn' = 0))

\* C29: provided every move goes to an Empty cell and every prompt is
\* answered in the end by esc or a free cell, a round ends, by a win, a tie
\* or esc, after at most 9 placements; X is placed on even turns and O on
\* odd turns, and nothing is placed once a win or a tie is declared.
C29_RoundEndsWithinNine ==
  /\ []TurnsCounted
  /\ [][PlacedInTurn]_vars
  /\ (pc = "play" /\ EmptyCellsOnly) ~> (pc \in {"win", "tie", "menu"})

\* a round has ended with the ninth placement
C29_Witness ==
  /\ EmptyCellsOnly
  /\ pc \in {"win", "tie"}
  /\ turn = 8
  /\ count(board, "X") = 5 /\ count(board, "O") = 4

----------------------------------------------------------------------------
(* C30: the score changes only by a win, and only the winner's *)

\* the player whose symbol was placed, and the other one
Current == players[(turn % 2) + 1]
Other == players[((turn + 1) % 2) + 1]

\* a step of a game: a win adds 1 to the winner's score and leaves the
\* other player's as it was, any other step leaves both as they were
ScoreStep ==
  (pc \in {"play", "win", "tie", "final"} /\ pc' \in {"play", "win", "tie", "final"}) =>
    IF pc = "play" /\ pc' = "win"
    THEN /\ score'[Current] = score[Current] + 1
         /\ score'[Other] = score[Other]
    ELSE /\ score'[players[1]] = score[players[1]]
         /\ score'[players[2]] = score[players[2]]

\* C30: play_round changes the score only when a round ends in a win: the
\* winner's score goes up by exactly 1 and the other player's stays; a tie
\* leaves both as they were, so the two scores of a game of at most
\* MaxRounds rounds sum to at most MaxRounds.
C30_ScoreOnlyByWin ==
  /\ [][ScoreStep]_vars
  /\ [](pc \in {"play", "win", "tie", "final"}
          => score[players[1]] + score[players[2]] <= MaxRounds)

============================================================================
